---- MODULE Spec2Model ----
(***************************************************************************)
(* Model of examples/simpleble/src/simionic.cpp: main() scans for BLE      *)
(* peripherals, lets the operator pick one, connects, resolves the target  *)
(* characteristic, subscribes (indicate, else notify), waits for Enter,    *)
(* unsubscribes and disconnects.                                           *)
(*                                                                         *)
(* main() is one sequential function; the model cuts it at the calls into  *)
(* the radio stack and the console, whose results the program cannot       *)
(* choose.  Each action is one such call together with all the code that   *)
(* runs up to the next one.  The radio stack is the environment: every     *)
(* services() call returns some service tree (it need not be the tree of   *)
(* the previous call), and connect, services/characteristics enumeration,  *)
(* indicate, notify and unsubscribe may throw.  disconnect() is taken not  *)
(* to throw.  An exception that no handler of main() catches ends the      *)
(* process through std::terminate.                                         *)
(***************************************************************************)
EXTENDS Naturals, Sequences, FiniteSets

VARIABLES
    pc,                          \* position of main()
    peripherals,                 \* std::vector<Peripheral> filled by the scan callback
    found_calls,                 \* number of on-found callbacks delivered so far
    prompts,                     \* number of Utils::getUserInputInt calls made
    selection,                   \* std::optional<size_t>: <<>> or <<index>>
    peripheral,                  \* the chosen peripheral: <<>> or <<record>>
    found_service_uuid,
    found_characterisitic_uuid,
    found,
    used_indicate,
    recheck,                     \* characteristics whose flags lines 141-153 read
    ops,                         \* calls made on the chosen peripheral, in order
    diag,                        \* the diagnostic written to std::cerr, if any
    exit_code,                   \* how the process ended
    delivered,                   \* payloads the radio stack has passed to the callback
    console,                     \* lines print_hex_bytes has written to std::cout
    cout,                        \* formatting state of std::cout
    tree_arg                     \* the tree services() returns to the resolver,
                                 \* where a specification fixes it from the start

vars == <<pc, peripherals, found_calls, prompts, selection, peripheral,
          found_service_uuid, found_characterisitic_uuid, found, used_indicate,
          recheck, ops, diag, exit_code, delivered, console, cout,
          tree_arg>>

---------------------------------------------------------------------------
(* Constants of the program *)

SIMIONIC_G1000_IDENTIFIER == "SHB1000"

\* A UUID string is modelled as the sequence of its characters.
BLE_CHARACTERISTIC_UUID ==
    <<"f","6","2","a","9","f","5","6","-","f","2","9","e","-","4","8","a","8","-",
      "a","3","1","7","-","4","7","e","e","3","7","a","5","8","9","9","9">>

UpperCaseLetters ==
    <<"A","B","C","D","E","F","G","H","I","J","K","L","M",
      "N","O","P","Q","R","S","T","U","V","W","X","Y","Z">>

LowerCaseLetters ==
    <<"a","b","c","d","e","f","g","h","i","j","k","l","m",
      "n","o","p","q","r","s","t","u","v","w","x","y","z">>

\* The lower-case letter of every upper-case letter.
LowerCaseOf ==
    [c \in {UpperCaseLetters[i] : i \in DOMAIN UpperCaseLetters} |->
        LowerCaseLetters[CHOOSE i \in DOMAIN UpperCaseLetters : UpperCaseLetters[i] = c]]

\* std::tolower on one character (C locale).
tolower(c) == IF c \in DOMAIN LowerCaseOf THEN LowerCaseOf[c] ELSE c

\* to_lower: std::transform of std::tolower over the string.
to_lower(v) == [i \in DOMAIN v |-> tolower(v[i])]

desired_characteristic_uuid == to_lower(BLE_CHARACTERISTIC_UUID)

---------------------------------------------------------------------------
(* Bounds and the inputs the environment draws from *)

MaxFound == 3        \* on-found callbacks delivered during one scan
MaxServices == 2     \* services in a tree returned by services()
MaxChars == 2        \* characteristics in a tree, over all its services
MaxBytes == 2        \* octets in one payload
MaxPayloads == 2     \* payloads delivered during one session

\* What the radio stack may report to the on-found callback.
ScanRecords ==
    [identifier : {SIMIONIC_G1000_IDENTIFIER, "Other"},
     address : {"AA:BB", "CC:DD", ""},
     connectable : BOOLEAN]

\* The device of the spec's scenario A alone.
ScenarioRecords ==
    {[identifier |-> SIMIONIC_G1000_IDENTIFIER, address |-> "AA:BB", connectable |-> TRUE]}

\* One line of console input to the selection prompt: a number, or text that
\* does not parse as one.
ConsoleInputs ==
    {[numeric |-> TRUE, value |-> v] : v \in 0..MaxFound}
        \cup {[numeric |-> FALSE, value |-> 0]}

UPPER_CASE_UUID ==
    <<"F","6","2","A","9","F","5","6","-","F","2","9","E","-","4","8","A","8","-",
      "A","3","1","7","-","4","7","E","E","3","7","A","5","8","9","9","9">>

OTHER_UUID ==
    <<"0","0","0","0","2","a","1","9","-","0","0","0","0","-","1","0","0","0","-",
      "8","0","0","0","-","0","0","8","0","5","f","9","b","3","4","f","b">>

ServiceUuids == {"svc-a", "svc-b"}

\* The characteristics a tree is built from: the target UUID with every pair
\* of capability flags, the target UUID in upper case, and another UUID.
Characteristics ==
    [uuid : {BLE_CHARACTERISTIC_UUID}, can_indicate : BOOLEAN, can_notify : BOOLEAN]
        \cup {[uuid |-> UPPER_CASE_UUID, can_indicate |-> FALSE, can_notify |-> TRUE],
              [uuid |-> OTHER_UUID, can_indicate |-> TRUE, can_notify |-> TRUE]}

CharSeqsUpTo(n) == UNION {[1..k -> Characteristics] : k \in 0..n}

ServicesUpTo(n) == [uuid : ServiceUuids, characteristics : CharSeqsUpTo(n)]

\* Trees of at most ns services holding at most nc characteristics in all.
RECURSIVE TreesUpTo(_, _)
TreesUpTo(ns, nc) ==
    IF ns = 0 THEN {<<>>}
    ELSE {<<>>} \cup
         UNION {{<<s>> \o t : t \in TreesUpTo(ns - 1, nc - Len(s.characteristics))}
                    : s \in ServicesUpTo(nc)}

Trees == TreesUpTo(MaxServices, MaxChars)

\* The empty tree and the trees of one service with one characteristic.
SingleTrees ==
    {<<>>} \cup {<<[uuid |-> "svc-a", characteristics |-> <<c>>]>> : c \in Characteristics}

\* Octet values: zero, one below 16, the largest.
ByteValues == {0, 10, 255}

Payloads == UNION {[1..n -> ByteValues] : n \in 0..MaxBytes}

\* The payloads of one octet at most.
ShortPayloads == {bytes \in Payloads : Len(bytes) <= 1}

---------------------------------------------------------------------------
(* Helpers *)

Op(name, ok) == [op |-> name, ok |-> ok]

\* Utils::getUserInputInt(prompt, max): the number read when it lies in
\* 0..max, no value on text that is no number or a number beyond max.
getUserInputInt(input, max) ==
    IF input.numeric /\ input.value <= max THEN <<input.value>> ELSE <<>>

\* Lines 76-82: the catalog entries the device listing prints, in order.
ListedDevices ==
    SelectSeq(peripherals, LAMBDA p : p.identifier = SIMIONIC_G1000_IDENTIFIER)

Exit(code, message) ==
    /\ pc' = "exited"
    /\ exit_code' = code
    /\ diag' = message

\* Lines 106-113: index of the first characteristic, from position i on, whose
\* lower-cased UUID is the desired one; 0 when there is none.
\* The search comparing the UUIDs as the peripheral spells them.
RECURSIVE FirstDesiredCaseSensitive(_, _)
FirstDesiredCaseSensitive(chars, i) ==
    IF i > Len(chars) THEN 0
    ELSE IF chars[i].uuid = BLE_CHARACTERISTIC_UUID THEN i
    ELSE FirstDesiredCaseSensitive(chars, i + 1)

RECURSIVE FirstDesired(_, _)
FirstDesired(chars, i) ==
    IF i > Len(chars) THEN 0
    ELSE IF to_lower(chars[i].uuid) = desired_characteristic_uuid THEN i
    ELSE FirstDesired(chars, i + 1)

\* Lines 105-115: the resolver loops over the services from position s on.
RECURSIVE ResolveFrom(_, _)
ResolveFrom(tree, s) ==
    IF s > Len(tree)
    THEN [found |-> FALSE, service_uuid |-> "", characteristic_uuid |-> <<>>,
          characteristic |-> <<>>]
    ELSE LET c == FirstDesired(tree[s].characteristics, 1)
         IN  IF c > 0
             THEN [found |-> TRUE,
                   service_uuid |-> tree[s].uuid,
                   characteristic_uuid |-> tree[s].characteristics[c].uuid,
                   characteristic |-> <<tree[s].characteristics[c]>>]
             ELSE ResolveFrom(tree, s + 1)

\* Lines 139-155: index of the first characteristic, from position i on, whose
\* UUID equals the recorded one; 0 when there is none.
RECURSIVE FirstRecorded(_, _, _)
FirstRecorded(chars, uuid, i) ==
    IF i > Len(chars) THEN 0
    ELSE IF chars[i].uuid = uuid THEN i
    ELSE FirstRecorded(chars, uuid, i + 1)

\* Lines 137-158: the characteristics the re-check loops reach lines 141-153
\* with, in order: in every service whose UUID equals the recorded service UUID,
\* the first characteristic whose UUID equals the recorded one (the break of
\* line 154 leaves the inner loop only).
RECURSIVE RecheckFrom(_, _, _, _)
RecheckFrom(tree, service_uuid, characteristic_uuid, s) ==
    IF s > Len(tree) THEN <<>>
    ELSE LET c == IF tree[s].uuid = service_uuid
                  THEN FirstRecorded(tree[s].characteristics, characteristic_uuid, 1)
                  ELSE 0
             rest == RecheckFrom(tree, service_uuid, characteristic_uuid, s + 1)
         IN  IF c > 0 THEN <<tree[s].characteristics[c]>> \o rest ELSE rest

\* The call chosen from the flags the resolver saw, where it saw any.
SubscribeCallFromSnapshot(characteristic) ==
    LET seen == ResolveFrom(tree_arg, 1).characteristic
        c == IF seen = <<>> THEN characteristic ELSE seen[1]
    IN  IF c.can_indicate THEN "indicate"
        ELSE IF c.can_notify THEN "notify"
        ELSE "none"

\* Lines 141-153: the call the flags of one characteristic lead to.
SubscribeCall(characteristic) ==
    IF characteristic.can_indicate THEN "indicate"
    ELSE IF characteristic.can_notify THEN "notify"
    ELSE "none"

\* Position of the first characteristic of cs that supports neither call;
\* Len(cs) + 1 when every one supports a call.
RECURSIVE FirstUnsupported(_, _)
FirstUnsupported(cs, i) ==
    IF i > Len(cs) THEN i
    ELSE IF SubscribeCall(cs[i]) = "none" THEN i
    ELSE FirstUnsupported(cs, i + 1)

---------------------------------------------------------------------------
(* The byte renderer *)

UpperHexDigits == <<"0", "1", "2", "3", "4", "5", "6", "7", "8", "9", "A", "B", "C", "D", "E", "F">>

LowerHexDigits == <<"0", "1", "2", "3", "4", "5", "6", "7", "8", "9", "a", "b", "c", "d", "e", "f">>

INDICATION_PREFIX == <<"I", "n", "d", "i", "c", "a", "t", "i", "o", "n", " ", "(">>

BYTES_SUFFIX == <<" ", "b", "y", "t", "e", "s", ")", ":", " ">>

\* The digits of n in the given base, most significant first.
RECURSIVE Digits(_, _, _)
Digits(n, base, table) ==
    IF n < base THEN <<table[n + 1]>>
    ELSE Append(Digits(n \div base, base, table), table[(n % base) + 1])

\* operator<< of a non-negative int that ignores the field width.
InsertIntUnpadded(n, stream, width) ==
    Digits(n, IF stream.hex THEN 16 ELSE 10,
           IF stream.uppercase THEN UpperHexDigits ELSE LowerHexDigits)

\* operator<< of a non-negative int on a stream with the given basefield,
\* uppercase flag and fill character, under the field width set for this one
\* insertion (0 when std::setw was not applied); adjustment is to the right.
InsertInt(n, stream, width) ==
    LET digits == Digits(n, IF stream.hex THEN 16 ELSE 10,
                         IF stream.uppercase THEN UpperHexDigits ELSE LowerHexDigits)
    IN  IF Len(digits) >= width THEN digits
        ELSE [i \in 1..(width - Len(digits)) |-> stream.fill] \o digits

\* Lines 40-42: the loop over the octets, from position i on. Each pass sets
\* std::hex, std::uppercase and the fill character on the stream, where they
\* stay, and a width of two for the one insertion.
RECURSIVE HexLoop(_, _, _)
HexLoop(data, i, out) ==
    IF i > Len(data) THEN out
    ELSE LET stream == [hex |-> TRUE, uppercase |-> TRUE, fill |-> "0"]
         IN  HexLoop(data, i + 1,
                     [text |-> out.text \o InsertInt(data[i], stream, 2) \o <<" ">>,
                      stream |-> stream])

\* Lines 38-44: the line written for one payload and the formatting state the
\* stream is left in; std::endl closes the line.
print_hex_bytes(data, stream) ==
    LET head == INDICATION_PREFIX \o InsertInt(Len(data), stream, 0) \o BYTES_SUFFIX
        body == HexLoop(data, 1, [text |-> head, stream |-> stream])
    IN  [text |-> body.text,
         stream |-> [body.stream EXCEPT !.hex = FALSE, !.uppercase = FALSE]]

\* Lines 32-36.
on_receive_bytes(bytes, stream) == print_hex_bytes(bytes, stream)

---------------------------------------------------------------------------
Init ==
    /\ pc = "getAdapter"
    /\ peripherals = <<>>
    /\ found_calls = 0
    /\ prompts = 0
    /\ selection = <<>>
    /\ peripheral = <<>>
    /\ found_service_uuid = ""
    /\ found_characterisitic_uuid = <<>>
    /\ found = FALSE
    /\ used_indicate = FALSE
    /\ recheck = <<>>
    /\ ops = <<>>
    /\ diag = "none"
    /\ exit_code = "running"
    /\ delivered = <<>>
    /\ console = <<>>
    /\ cout = [hex |-> FALSE, uppercase |-> FALSE, fill |-> " "]
    /\ tree_arg = <<>>

\* Lines 50-66: Utils::getAdapter() and the callback registration.
GetAdapter(has_value) ==
    /\ pc = "getAdapter"
    /\ IF has_value
       THEN /\ pc' = "scan"
            /\ UNCHANGED <<diag, exit_code>>
       ELSE Exit("EXIT_FAILURE", "No Bluetooth adapter found.")
    /\ UNCHANGED <<peripherals, found_calls, prompts, selection, peripheral,
                   found_service_uuid, found_characterisitic_uuid, found,
                   used_indicate, recheck, ops>>
    /\ UNCHANGED <<delivered, console, cout, tree_arg>>

\* The on-found callback without the is_connectable test of line 61.
OnFoundUnfiltered(p, limit) ==
    /\ pc = "scan"
    /\ found_calls < limit
    /\ found_calls' = found_calls + 1
    /\ peripherals' = Append(peripherals, p)
    /\ UNCHANGED <<pc, prompts, selection, peripheral, found_service_uuid,
                   found_characterisitic_uuid, found, used_indicate, recheck, ops,
                   diag, exit_code>>
    /\ UNCHANGED <<delivered, console, cout, tree_arg>>

\* Lines 59-64: the on-found callback, run by the radio stack inside scan_for.
OnFound(p, limit) ==
    /\ pc = "scan"
    /\ found_calls < limit
    /\ found_calls' = found_calls + 1
    /\ peripherals' = IF p.connectable THEN Append(peripherals, p) ELSE peripherals
    /\ UNCHANGED <<pc, prompts, selection, peripheral, found_service_uuid,
                   found_characterisitic_uuid, found, used_indicate, recheck, ops,
                   diag, exit_code>>
    /\ UNCHANGED <<delivered, console, cout, tree_arg>>

\* Lines 68-82: scan_for returns; the empty check and the device listing.
ScanFor ==
    /\ pc = "scan"
    /\ IF peripherals = <<>>
       THEN Exit("EXIT_FAILURE", "No connectable peripherals discovered.")
       ELSE /\ pc' = "select"
            /\ UNCHANGED <<diag, exit_code>>
    /\ UNCHANGED <<peripherals, found_calls, prompts, selection, peripheral,
                   found_service_uuid, found_characterisitic_uuid, found,
                   used_indicate, recheck, ops>>
    /\ UNCHANGED <<delivered, console, cout, tree_arg>>

\* Lines 84-91: the selection prompt and the copy of the chosen peripheral.
Select(input) ==
    /\ pc = "select"
    /\ prompts' = prompts + 1
    /\ selection' = getUserInputInt(input, Len(peripherals) - 1)
    /\ IF selection' = <<>>
       THEN /\ Exit("EXIT_FAILURE", "Invalid selection.")
            /\ UNCHANGED peripheral
       ELSE /\ peripheral' = <<peripherals[selection'[1] + 1]>>
            /\ pc' = "connect"
            /\ UNCHANGED <<diag, exit_code>>
    /\ UNCHANGED <<peripherals, found_calls, found_service_uuid,
                   found_characterisitic_uuid, found, used_indicate, recheck, ops>>
    /\ UNCHANGED <<delivered, console, cout, tree_arg>>

\* Connect whose handler logs and does not return: the run goes on to resolve.
ConnectErrorIgnored(ok) ==
    /\ pc = "connect"
    /\ ops' = Append(ops, Op("connect", ok))
    /\ pc' = "resolve"
    /\ diag' = IF ok THEN diag ELSE "Connection failed"
    /\ UNCHANGED <<peripherals, found_calls, prompts, selection, peripheral,
                   found_service_uuid, found_characterisitic_uuid, found,
                   used_indicate, recheck, exit_code>>
    /\ UNCHANGED <<delivered, console, cout, tree_arg>>

\* Lines 92-97: peripheral.connect() inside its try block.
Connect(ok) ==
    /\ pc = "connect"
    /\ ops' = Append(ops, Op("connect", ok))
    /\ IF ok
       THEN /\ pc' = "resolve"
            /\ UNCHANGED <<diag, exit_code>>
       ELSE Exit("EXIT_FAILURE", "Connection failed")
    /\ UNCHANGED <<peripherals, found_calls, prompts, selection, peripheral,
                   found_service_uuid, found_characterisitic_uuid, found,
                   used_indicate, recheck>>
    /\ UNCHANGED <<delivered, console, cout, tree_arg>>

\* Lines 105-115, services() or characteristics() throwing: nothing in main()
\* catches it.
ResolveThrows ==
    /\ pc = "resolve"
    /\ ops' = Append(ops, Op("services", FALSE))
    /\ Exit("terminate", "none")
    /\ UNCHANGED <<peripherals, found_calls, prompts, selection, peripheral,
                   found_service_uuid, found_characterisitic_uuid, found,
                   used_indicate, recheck>>
    /\ UNCHANGED <<delivered, console, cout, tree_arg>>

\* Lines 99-119: the resolver over the tree services() returned, and the
\* not-found diagnostic.
Resolve(tree) ==
    /\ pc = "resolve"
    /\ ops' = Append(ops, Op("services", TRUE))
    /\ LET r == ResolveFrom(tree, 1)
       IN  /\ found' = r.found
           /\ found_service_uuid' = r.service_uuid
           /\ found_characterisitic_uuid' = r.characteristic_uuid
           /\ pc' = IF r.found THEN "subscribe" ELSE "list"
           /\ diag' = IF r.found THEN diag ELSE "Target characteristic UUID not found"
    /\ UNCHANGED <<peripherals, found_calls, prompts, selection, peripheral,
                   used_indicate, recheck, exit_code>>
    /\ UNCHANGED <<delivered, console, cout, tree_arg>>

\* Lines 120-130: the listing of every characteristic, then disconnect. The
\* services() call of the listing may throw, and nothing catches it.
ListAll(ok) ==
    /\ pc = "list"
    /\ IF ok
       THEN /\ ops' = ops \o <<Op("services", TRUE), Op("disconnect", TRUE)>>
            /\ Exit("EXIT_FAILURE", diag)
       ELSE /\ ops' = Append(ops, Op("services", FALSE))
            /\ Exit("terminate", diag)
    /\ UNCHANGED <<peripherals, found_calls, prompts, selection, peripheral,
                   found_service_uuid, found_characterisitic_uuid, found,
                   used_indicate, recheck>>
    /\ UNCHANGED <<delivered, console, cout, tree_arg>>

\* The calls lines 142 and 147 make for the characteristics cs[1..n].
SubscribeOps(cs, n, last_ok) ==
    [i \in 1..n |-> Op(SubscribeCall(cs[i]), IF i = n THEN last_ok ELSE TRUE)]

\* Lines 135-163, the enumeration of the re-check throwing: services() itself
\* (at = 0), or a call on the service at position `at` of the tree, once the
\* services before it have been gone through. The handler of line 159
\* disconnects.
SubscribeEnumThrows(tree, at) ==
    /\ pc = "subscribe"
    /\ LET cs == RecheckFrom(SubSeq(tree, 1, at - 1),
                             found_service_uuid, found_characterisitic_uuid, 1)
       IN  /\ FirstUnsupported(cs, 1) > Len(cs)
           /\ recheck' = cs
           /\ used_indicate' = \E i \in DOMAIN cs : SubscribeCall(cs[i]) = "indicate"
           /\ ops' = ops \o (IF at = 0
                             THEN <<Op("services", FALSE)>>
                             ELSE <<Op("services", TRUE)>>
                                      \o SubscribeOps(cs, Len(cs), TRUE)
                                      \o <<Op("characteristics", FALSE)>>)
                         \o <<Op("disconnect", TRUE)>>
    /\ Exit("EXIT_FAILURE", "Failed to subscribe")
    /\ UNCHANGED <<peripherals, found_calls, prompts, selection, peripheral,
                   found_service_uuid, found_characterisitic_uuid, found>>
    /\ UNCHANGED <<delivered, console, cout, tree_arg>>

\* Lines 135-163, the n-th indicate or notify call throwing: the handler of
\* line 159 disconnects.
SubscribeCallThrows(tree, n) ==
    /\ pc = "subscribe"
    /\ LET cs == RecheckFrom(tree, found_service_uuid, found_characterisitic_uuid, 1)
       IN  /\ n >= 1
           /\ n < FirstUnsupported(cs, 1)
           /\ recheck' = SubSeq(cs, 1, n)
           /\ used_indicate' = \E i \in 1..(n - 1) : SubscribeCall(cs[i]) = "indicate"
           /\ ops' = ops \o <<Op("services", TRUE)>> \o SubscribeOps(cs, n, FALSE)
                         \o <<Op("disconnect", TRUE)>>
    /\ Exit("EXIT_FAILURE", "Failed to subscribe")
    /\ UNCHANGED <<peripherals, found_calls, prompts, selection, peripheral,
                   found_service_uuid, found_characterisitic_uuid, found>>
    /\ UNCHANGED <<delivered, console, cout, tree_arg>>

\* Lines 133-166 with nothing thrown: the re-check loops over the tree
\* services() returned, the subscribe calls, the no-capability exit of lines
\* 150-152, and the announcement of line 165.
Subscribe(tree) ==
    /\ pc = "subscribe"
    /\ LET cs == RecheckFrom(tree, found_service_uuid, found_characterisitic_uuid, 1)
           stop == FirstUnsupported(cs, 1)
       IN  /\ recheck' = SubSeq(cs, 1, IF stop <= Len(cs) THEN stop ELSE Len(cs))
           /\ used_indicate' = \E i \in 1..(stop - 1) : SubscribeCall(cs[i]) = "indicate"
           /\ IF stop <= Len(cs)
              THEN /\ ops' = ops \o <<Op("services", TRUE)>>
                                 \o SubscribeOps(cs, stop - 1, TRUE)
                                 \o <<Op("disconnect", TRUE)>>
                   /\ Exit("EXIT_FAILURE",
                           "Characteristic does not support indicate or notify.")
              ELSE /\ ops' = ops \o <<Op("services", TRUE)>>
                                 \o SubscribeOps(cs, Len(cs), TRUE)
                   /\ pc' = "wait"
                   /\ UNCHANGED <<diag, exit_code>>
    /\ UNCHANGED <<peripherals, found_calls, prompts, selection, peripheral,
                   found_service_uuid, found_characterisitic_uuid, found>>
    /\ UNCHANGED <<delivered, console, cout, tree_arg>>

\* Lines 168-173: the stop wait reads one line, and a second one when the
\* first was empty and std::cin is still good.
WaitForEnter(dummy_empty, cin_good) ==
    /\ pc = "wait"
    /\ dummy_empty \in BOOLEAN /\ cin_good \in BOOLEAN
    /\ pc' = "unsubscribe"
    /\ UNCHANGED <<peripherals, found_calls, prompts, selection, peripheral,
                   found_service_uuid, found_characterisitic_uuid, found,
                   used_indicate, recheck, ops, diag, exit_code>>
    /\ UNCHANGED <<delivered, console, cout, tree_arg>>

\* Unsubscribe without the try block of lines 176-180: the exception leaves main().
UnsubscribeUncaught(ok) ==
    /\ pc = "unsubscribe"
    /\ ops' = Append(ops, Op("unsubscribe", ok))
    /\ IF ok
       THEN /\ pc' = "disconnect"
            /\ UNCHANGED <<diag, exit_code>>
       ELSE Exit("terminate", diag)
    /\ UNCHANGED <<peripherals, found_calls, prompts, selection, peripheral,
                   found_service_uuid, found_characterisitic_uuid, found,
                   used_indicate, recheck>>
    /\ UNCHANGED <<delivered, console, cout, tree_arg>>

\* Lines 175-180: unsubscribe inside its try block; the handler only logs.
Unsubscribe(ok) ==
    /\ pc = "unsubscribe"
    /\ ops' = Append(ops, Op("unsubscribe", ok))
    /\ diag' = IF ok THEN diag ELSE "Unsubscribe failed (continuing)"
    /\ pc' = "disconnect"
    /\ UNCHANGED <<peripherals, found_calls, prompts, selection, peripheral,
                   found_service_uuid, found_characterisitic_uuid, found,
                   used_indicate, recheck, exit_code>>
    /\ UNCHANGED <<delivered, console, cout, tree_arg>>

\* Lines 182-184: disconnect and the successful return.
Disconnect ==
    /\ pc = "disconnect"
    /\ ops' = Append(ops, Op("disconnect", TRUE))
    /\ pc' = "exited"
    /\ exit_code' = "EXIT_SUCCESS"
    /\ UNCHANGED <<peripherals, found_calls, prompts, selection, peripheral,
                   found_service_uuid, found_characterisitic_uuid, found,
                   used_indicate, recheck, diag>>
    /\ UNCHANGED <<delivered, console, cout, tree_arg>>

\* Lines 142-148 with 32-36: the callback handed to indicate() or notify(),
\* run by the radio stack on its own thread with one payload. It runs from
\* the subscribe call on, whatever the main flow is doing: blocked in the
\* stop wait, about to unsubscribe, or past an unsubscribe that failed.
OnPayloadAfterWait(bytes, limit) ==
    /\ \E i \in DOMAIN ops : ops[i].op \in {"indicate", "notify"} /\ ops[i].ok
    /\ pc = "unsubscribe"
    /\ Len(delivered) < limit
    /\ delivered' = Append(delivered, bytes)
    /\ LET r == on_receive_bytes(bytes, cout)
       IN  /\ console' = Append(console, r.text)
           /\ cout' = r.stream
    /\ UNCHANGED <<pc, peripherals, found_calls, prompts, selection, peripheral,
                   found_service_uuid, found_characterisitic_uuid, found,
                   used_indicate, recheck, ops, diag, exit_code, tree_arg>>

OnPayload(bytes, limit) ==
    /\ \E i \in DOMAIN ops : ops[i].op \in {"indicate", "notify"} /\ ops[i].ok
    /\ \/ pc \in {"wait", "unsubscribe"}
       \/ pc = "disconnect" /\ ops[Len(ops)] = [op |-> "unsubscribe", ok |-> FALSE]
    /\ Len(delivered) < limit
    /\ delivered' = Append(delivered, bytes)
    /\ LET r == on_receive_bytes(bytes, cout)
       IN  /\ console' = Append(console, r.text)
           /\ cout' = r.stream
    /\ UNCHANGED <<pc, peripherals, found_calls, prompts, selection, peripheral,
                   found_service_uuid, found_characterisitic_uuid, found,
                   used_indicate, recheck, ops, diag, exit_code, tree_arg>>

\* One step of the program against an environment that reports at most
\* `limit` records of `records` to the scan callback and returns trees of
\* `trees` from services().
Step(records, limit, trees) ==
    \/ \E has_value \in BOOLEAN : GetAdapter(has_value)
    \/ \E p \in records : OnFound(p, limit)
    \/ ScanFor
    \/ \E input \in ConsoleInputs : Select(input)
    \/ \E ok \in BOOLEAN : Connect(ok)
    \/ ResolveThrows
    \/ \E tree \in trees : Resolve(tree)
    \/ \E ok \in BOOLEAN : ListAll(ok)
    \/ \E tree \in trees : \E at \in 0..Len(tree) : SubscribeEnumThrows(tree, at)
    \/ \E tree \in trees : \E n \in 1..Len(tree) : SubscribeCallThrows(tree, n)
    \/ \E tree \in trees : Subscribe(tree)
    \/ \E dummy_empty \in BOOLEAN, cin_good \in BOOLEAN : WaitForEnter(dummy_empty, cin_good)
    \/ \E ok \in BOOLEAN : Unsubscribe(ok)
    \/ Disconnect

\* Every scan record, against trees of one service with one characteristic.
Next == Step(ScanRecords, MaxFound, SingleTrees)

Spec == Init /\ [][Next]_vars

\* The scan of scenario A (its one device, reported once at most), against
\* every tree within the bounds.
SessionNext == Step(ScenarioRecords, 1, Trees)

SessionSpec == Init /\ [][SessionNext]_vars

\* The resolver as a function of the tree: the run of scenario A has
\* connected, and services() returns the tree drawn at the start.
ResolverInit ==
    /\ pc = "resolve"
    /\ peripherals = <<[identifier |-> SIMIONIC_G1000_IDENTIFIER, address |-> "AA:BB",
                        connectable |-> TRUE]>>
    /\ found_calls = 1
    /\ prompts = 1
    /\ selection = <<0>>
    /\ peripheral = peripherals
    /\ found_service_uuid = ""
    /\ found_characterisitic_uuid = <<>>
    /\ found = FALSE
    /\ used_indicate = FALSE
    /\ recheck = <<>>
    /\ ops = <<Op("connect", TRUE)>>
    /\ diag = "none"
    /\ exit_code = "running"
    /\ delivered = <<>>
    /\ console = <<>>
    /\ cout = [hex |-> FALSE, uppercase |-> FALSE, fill |-> " "]
    /\ tree_arg \in Trees

ResolverNext == Resolve(tree_arg)

ResolverSpec == ResolverInit /\ [][ResolverNext]_vars

\* The session from the resolver on: services() returns to the resolver a
\* tree of one characteristic drawn at the start, and to the re-check of the
\* subscription every tree within the bounds.
RecheckInit == ResolverInit /\ tree_arg \in SingleTrees

RecheckNext ==
    \/ Resolve(tree_arg)
    \/ \E tree \in Trees : Subscribe(tree)
    \/ \E dummy_empty \in BOOLEAN, cin_good \in BOOLEAN : WaitForEnter(dummy_empty, cin_good)
    \/ \E ok \in BOOLEAN : Unsubscribe(ok)
    \/ Disconnect

RecheckSpec == RecheckInit /\ [][RecheckNext]_vars

\* The run of scenario A once it has subscribed with indicate() and stands
\* in the stop wait.
Subscribed ==
    /\ pc = "wait"
    /\ peripherals = <<[identifier |-> SIMIONIC_G1000_IDENTIFIER, address |-> "AA:BB",
                        connectable |-> TRUE]>>
    /\ found_calls = 1
    /\ prompts = 1
    /\ selection = <<0>>
    /\ peripheral = peripherals
    /\ found_service_uuid = "svc-a"
    /\ found_characterisitic_uuid = BLE_CHARACTERISTIC_UUID
    /\ found = TRUE
    /\ used_indicate = TRUE
    /\ recheck = <<[uuid |-> BLE_CHARACTERISTIC_UUID, can_indicate |-> TRUE,
                    can_notify |-> TRUE]>>
    /\ ops = <<Op("connect", TRUE), Op("services", TRUE), Op("services", TRUE),
               Op("indicate", TRUE)>>
    /\ diag = "none"
    /\ exit_code = "running"
    /\ delivered = <<>>
    /\ console = <<>>
    /\ cout = [hex |-> FALSE, uppercase |-> FALSE, fill |-> " "]
    /\ tree_arg = <<>>

\* The renderer as a function of the payloads: the radio stack delivers
\* every payload within the bounds to the callback.
RenderNext == \E bytes \in Payloads : OnPayload(bytes, MaxPayloads)

RenderSpec == Subscribed /\ [][RenderNext]_vars

\* The subscribed session to its end: the radio stack delivers payloads
\* while the main flow waits for the operator, unsubscribes and disconnects.
StreamNext ==
    \/ \E bytes \in ShortPayloads : OnPayload(bytes, MaxPayloads)
    \/ \E dummy_empty \in BOOLEAN, cin_good \in BOOLEAN : WaitForEnter(dummy_empty, cin_good)
    \/ \E ok \in BOOLEAN : Unsubscribe(ok)
    \/ Disconnect

StreamSpec == Subscribed /\ [][StreamNext]_vars

---------------------------------------------------------------------------
(* Vocabulary of the properties *)

\* Number of calls of operation `name` made on the chosen peripheral.
Calls(name) == Cardinality({i \in DOMAIN ops : ops[i].op = name})

ConnectInvoked == \E i \in DOMAIN ops : ops[i].op = "connect"

ConnectSucceeded == \E i \in DOMAIN ops : ops[i] = Op("connect", TRUE)

IsSubscribeCall(o) == o.op \in {"indicate", "notify"}

\* An indicate or notify call has returned without throwing.
SubscriptionEstablished == \E i \in DOMAIN ops : IsSubscribeCall(ops[i]) /\ ops[i].ok

Exited == pc = "exited"

ExitedWithFailure == Exited /\ exit_code \in {"EXIT_FAILURE", "terminate"}

ScanOver == pc \notin {"getAdapter", "scan"}

\* C1: after a successful connect, every run that ends in failure has called
\* disconnect exactly once.
C1_DisconnectOnceOnFailure ==
    (ExitedWithFailure /\ ConnectSucceeded) => Calls("disconnect") = 1

\* C2: unsubscribe is called only after an indicate or notify call of the same
\* run has returned successfully.
C2_UnsubscribeOnlyIfSubscribed ==
    \A i \in DOMAIN ops :
        ops[i].op = "unsubscribe" =>
            \E j \in 1..(i - 1) : IsSubscribeCall(ops[j]) /\ ops[j].ok

\* C3: the catalog never holds two entries with the same address.
C3_NoDuplicateAddress ==
    \A i, j \in DOMAIN peripherals :
        i # j => peripherals[i].address # peripherals[j].address

\* C4: the peripheral connect is invoked on carries the target identifier.
C4_ConnectsToTargetIdentifier ==
    ConnectInvoked => peripheral[1].identifier = SIMIONIC_G1000_IDENTIFIER

\* C5: when the scan is over and no catalog entry carries the target
\* identifier, the run has ended in failure with no prompt issued and no
\* connect attempted.
C5_NoCandidateEndsRun ==
    (ScanOver /\ ListedDevices = <<>>) =>
        /\ ExitedWithFailure
        /\ prompts = 0
        /\ ~ConnectInvoked

\* C6: exit code 0 only after the normal path (a subscription established,
\* then unsubscribe, then disconnect); no adapter, empty scan, no matching
\* identifier, invalid selection, connect error, characteristic not found, no
\* subscription capability and subscribe error all end with a non-zero code.
C6_ExitCodes ==
    /\ exit_code = "EXIT_SUCCESS" =>
          /\ SubscriptionEstablished
          /\ Len(ops) >= 2
          /\ ops[Len(ops) - 1].op = "unsubscribe"
          /\ ops[Len(ops)].op = "disconnect"
    /\ Exited =>
          \/ exit_code # "EXIT_SUCCESS"
          \/ /\ ListedDevices # <<>>
             /\ selection # <<>>
             /\ found
             /\ \A i \in DOMAIN ops : ops[i].op = "unsubscribe" \/ ops[i].ok
             /\ \A i \in DOMAIN recheck : SubscribeCall(recheck[i]) # "none"

\* C7: the flags of the resolved characteristic, as read at subscribe time,
\* decide the mode in priority order: can_indicate means indicate is called and
\* notify never is; otherwise can_notify means notify is called; neither means
\* no subscribe call at all and a failure exit with the no-capability message.
C7_ModePriority ==
    recheck # <<>> =>
        LET c == recheck[1]
        IN  /\ c.can_indicate => Calls("indicate") >= 1 /\ Calls("notify") = 0
            /\ (~c.can_indicate /\ c.can_notify) => Calls("notify") >= 1
            /\ (~c.can_indicate /\ ~c.can_notify) =>
                  /\ Calls("indicate") = 0 /\ Calls("notify") = 0
                  /\ exit_code = "EXIT_FAILURE"
                  /\ diag = "Characteristic does not support indicate or notify."

\* C8: once the stop wait is over, unsubscribe is called once and disconnect
\* once right after it, whether or not unsubscribe threw, and the run ends
\* with exit code 0.
C8_TeardownAfterStop ==
    /\ pc = "unsubscribe" => Calls("unsubscribe") = 0 /\ Calls("disconnect") = 0
    /\ pc = "disconnect" =>
          /\ Calls("unsubscribe") = 1 /\ Calls("disconnect") = 0
          /\ ops[Len(ops)].op = "unsubscribe"
    /\ (Exited /\ Calls("unsubscribe") > 0) =>
          /\ exit_code = "EXIT_SUCCESS"
          /\ Calls("unsubscribe") = 1 /\ Calls("disconnect") = 1
          /\ ops[Len(ops) - 1].op = "unsubscribe"
          /\ ops[Len(ops)] = Op("disconnect", TRUE)
    /\ exit_code = "EXIT_SUCCESS" => Calls("unsubscribe") = 1

\* C8 witness: a subscribed run whose unsubscribe threw has disconnected and
\* ended with exit code 0.
C8_Witness ==
    /\ exit_code = "EXIT_SUCCESS"
    /\ SubscriptionEstablished
    /\ \E i \in DOMAIN ops : ops[i] = Op("unsubscribe", FALSE)

\* C9: with exactly one catalog entry carrying the target identifier, no
\* selection prompt is issued and connect is invoked on that entry.
C9_SingleCandidateAutoSelected ==
    (ScanOver /\ Len(ListedDevices) = 1) =>
        /\ prompts = 0
        /\ ConnectInvoked => peripheral = <<ListedDevices[1]>>

\* C10: with n > 1 catalog entries carrying the target identifier, an accepted
\* index lies in 0..n-1, and a rejected input ends the run in failure with the
\* invalid-selection message and no connect attempt.
C10_SelectionWithinCandidates ==
    (Len(ListedDevices) > 1 /\ prompts > 0) =>
        IF selection # <<>>
        THEN selection[1] <= Len(ListedDevices) - 1
        ELSE /\ exit_code = "EXIT_FAILURE"
             /\ diag = "Invalid selection."
             /\ ~ConnectInvoked

\* C11: when connect throws, the run ends at once with EXIT_FAILURE and the
\* connection-failed message, and the failed connect is the only call ever made
\* on the peripheral.
C11_ConnectErrorEndsRun ==
    (\E i \in DOMAIN ops : ops[i] = Op("connect", FALSE)) =>
        /\ ops = <<Op("connect", FALSE)>>
        /\ Exited
        /\ exit_code = "EXIT_FAILURE"
        /\ diag = "Connection failed"

\* C11 witness: a run has ended on a connect that threw.
C11_Witness == Exited /\ ops = <<Op("connect", FALSE)>>

\* C13: no catalog entry is non-connectable.
C13_OnlyConnectableEntries ==
    \A i \in DOMAIN peripherals : peripherals[i].connectable

\* C13 witness: the scan is over, the callback has been given more records
\* than the catalog holds (some were non-connectable), and the catalog is not
\* empty.
C13_Witness ==
    /\ ScanOver
    /\ Len(peripherals) > 0
    /\ found_calls > Len(peripherals)

\* C14: connect, the subscribe call (indicate and notify counted together),
\* unsubscribe and disconnect are each called at most once in a run.
C14_NoOperationRepeated ==
    /\ Calls("connect") <= 1
    /\ Calls("indicate") + Calls("notify") <= 1
    /\ Calls("unsubscribe") <= 1
    /\ Calls("disconnect") <= 1

\* C15: no catalog entry has an empty address (the catalog starts empty, so
\* this is what leaving the catalog unchanged on every empty-address record
\* amounts to).
C15_NoEmptyAddress ==
    \A i \in DOMAIN peripherals : peripherals[i].address # ""

\* C19: the subscription-active announcement and the stop wait, and everything
\* after them up to a successful exit, are reached only once an indicate or
\* notify call has returned successfully.
C19_WaitOnlyIfSubscribed ==
    (pc \in {"wait", "unsubscribe", "disconnect"} \/ exit_code = "EXIT_SUCCESS")
        => SubscriptionEstablished

\* C20: services enumeration, indicate, notify and unsubscribe are called only
\* after connect has succeeded and before disconnect, and a run that connected
\* ends with disconnect as the last call on the peripheral.
C20_ConnectionLifecycle ==
    /\ \A i \in DOMAIN ops :
          ops[i].op \in {"services", "characteristics", "indicate", "notify",
                         "unsubscribe"} =>
              /\ \E j \in 1..(i - 1) : ops[j] = Op("connect", TRUE)
              /\ \A j \in 1..(i - 1) : ops[j].op # "disconnect"
    /\ (Exited /\ ConnectSucceeded) => ops[Len(ops)].op = "disconnect"

\* Two characters that are equal, or the two cases of one letter.
SameLetter(x, y) ==
    \/ x = y
    \/ \E k \in DOMAIN UpperCaseLetters :
          {x, y} = {UpperCaseLetters[k], LowerCaseLetters[k]}

\* Two strings that differ in letter case at most.
EqualIgnoringCase(a, b) ==
    /\ Len(a) = Len(b)
    /\ \A k \in DOMAIN a : SameLetter(a[k], b[k])

\* Positions <<service, characteristic>> of the tree whose UUID is the target
\* UUID up to letter case.
Matches(tree) ==
    {m \in (DOMAIN tree) \X (1..MaxChars) :
        /\ m[2] \in DOMAIN tree[m[1]].characteristics
        /\ EqualIgnoringCase(tree[m[1]].characteristics[m[2]].uuid,
                             BLE_CHARACTERISTIC_UUID)}

\* C12: once the resolver has run on a tree, found holds exactly when some
\* characteristic of the tree has the target UUID up to letter case, and the
\* recorded service and characteristic UUIDs are then those of the first such
\* characteristic, services in returned order and characteristics in returned
\* order within a service.
C12_ResolverFirstMatch ==
    pc # "resolve" =>
        /\ found <=> Matches(tree_arg) # {}
        /\ found =>
              \E m \in Matches(tree_arg) :
                  /\ \A n \in Matches(tree_arg) :
                        m[1] < n[1] \/ (m[1] = n[1] /\ m[2] <= n[2])
                  /\ found_service_uuid = tree_arg[m[1]].uuid
                  /\ found_characterisitic_uuid =
                        tree_arg[m[1]].characteristics[m[2]].uuid

\* The resolver has passed a first service without a match and stopped at an
\* upper-case spelling of the target UUID in the second one.
C12_Witness ==
    /\ pc = "subscribe"
    /\ found
    /\ Len(tree_arg) = 2
    /\ Len(tree_arg[1].characteristics) = 1
    /\ tree_arg[1].uuid # tree_arg[2].uuid
    /\ found_service_uuid = tree_arg[2].uuid
    /\ found_characterisitic_uuid = UPPER_CASE_UUID

\* The line of `octets` octets: the prefix, the count in decimal, the suffix.
LineHead(octets) ==
    INDICATION_PREFIX
        \o (IF octets < 10 THEN <<UpperHexDigits[octets + 1]>>
            ELSE <<UpperHexDigits[(octets \div 10) + 1], UpperHexDigits[(octets % 10) + 1]>>)
        \o BYTES_SUFFIX

\* C16: the line written for a payload of N octets is "Indication (N bytes): "
\* followed by N groups of two upper-case hexadecimal digits and one space, in
\* payload order, whatever was written before it: the empty payload gives
\* "Indication (0 bytes): " and the payload 0A FF gives
\* "Indication (2 bytes): 0A FF ".
C16_RenderFormat ==
    /\ \A i \in DOMAIN console :
          LET line == console[i]
              data == delivered[i]
              head == LineHead(Len(data))
          IN  /\ Len(line) = Len(head) + 3 * Len(data)
              /\ SubSeq(line, 1, Len(head)) = head
              /\ \A k \in DOMAIN data :
                    /\ line[Len(head) + 3 * k - 2] = UpperHexDigits[(data[k] \div 16) + 1]
                    /\ line[Len(head) + 3 * k - 1] = UpperHexDigits[(data[k] % 16) + 1]
                    /\ line[Len(head) + 3 * k] = " "
              /\ data = <<>> => line = <<"I", "n", "d", "i", "c", "a", "t", "i", "o", "n", " ", "(", "0", " ", "b", "y", "t", "e", "s", ")", ":", " ">>
              /\ data = <<10, 255>> =>
                    line = <<"I", "n", "d", "i", "c", "a", "t", "i", "o", "n", " ", "(", "2", " ", "b", "y", "t", "e", "s", ")", ":", " ", "0", "A", " ", "F", "F", " ">>
    /\ \A i, j \in DOMAIN console : delivered[i] = delivered[j] => console[i] = console[j]

\* The payload 0A FF has been rendered after another payload that left its
\* formatting on the stream.
C16_Witness ==
    /\ Len(console) >= 2
    /\ delivered[1] # <<>>
    /\ delivered[2] = <<10, 255>>
    /\ cout.fill = "0"

\* C17: the console holds one line for every payload delivered, in the order
\* of arrival, each the rendering of its payload, and while the main flow is in
\* the stop wait or about to unsubscribe the callback can take any payload.
C17_PayloadsForwarded ==
    /\ Len(console) = Len(delivered)
    /\ \A i \in DOMAIN delivered :
          console[i] = print_hex_bytes(delivered[i],
                                       [hex |-> FALSE, uppercase |-> FALSE,
                                        fill |-> " "]).text
    /\ (pc \in {"wait", "unsubscribe"} /\ Len(delivered) < MaxPayloads) =>
          \A bytes \in ShortPayloads : ENABLED OnPayload(bytes, MaxPayloads)

\* Two payloads, the first of them empty, have been rendered while the main
\* flow was still in the stop wait.
C17_Witness ==
    /\ pc = "wait"
    /\ Len(console) >= 2
    /\ delivered[1] = <<>>
    /\ delivered[2] # <<>>

\* C18: every indicate or notify call follows the flags read at subscribe
\* time: the i-th call is indicate exactly when the i-th reading has
\* can_indicate, a notify call has can_notify in its reading, and every
\* reading with one of the flags gets its call.
C18_ModeFromSubscribeTimeFlags ==
    LET calls == SelectSeq(ops, IsSubscribeCall)
    IN  /\ Len(calls) <= Len(recheck)
        /\ \A i \in DOMAIN calls :
              /\ calls[i].op = "indicate" <=> recheck[i].can_indicate
              /\ calls[i].op = "notify" => recheck[i].can_notify
        /\ \A i \in DOMAIN recheck :
              (recheck[i].can_indicate \/ recheck[i].can_notify) => i <= Len(calls)

\* The resolver saw a characteristic that could indicate, the re-check read
\* it as able to notify only, and notify was called.
C18_Witness ==
    LET seen == ResolveFrom(tree_arg, 1).characteristic
    IN  /\ seen # <<>>
        /\ seen[1].can_indicate
        /\ recheck # <<>>
        /\ ~recheck[1].can_indicate
        /\ \E i \in DOMAIN ops : ops[i] = Op("notify", TRUE)
====
